---- MODULE Spec2Model ----
(***************************************************************************)
(* Model of astro's content server plugins                                 *)
(* (packages/astro/src/content/vite-plugin-content-server.ts):            *)
(*   - astro-content-server-plugin: dev-server start-up, the one-shot      *)
(*     content-dir listener, the listeners forwarding watcher events to    *)
(*     the content types generator;                                        *)
(*   - astro-content-flag-plugin: the load and transform hooks of the      *)
(*     virtual content modules and the watcher hook invalidating them;     *)
(* and of runtime/server/render/astro/head-and-content.ts.                 *)
(* The config observable, the content types generator and the helpers of   *)
(* utils.js / consts.js / vite-plugin-utils live outside the two source    *)
(* files at hand and are modelled from the specification.                  *)
(***************************************************************************)
EXTENDS Naturals, Sequences, FiniteSets, TLC

\* ------------------------------------------------------------------ bounds

\* Concurrent module requests (load slots), each used once.
MaxLoads == 2
\* Events a generator holds queued at once.
MaxQueue == 1
\* Runs of the invalidation hook in flight at once.
MaxHooks == 1
\* Generators the content-dir listener may create.
MaxGenerators == 2

\* ------------------------------------------------------- paths and requests

\* consts.js
CONTENT_FLAG == "astroContent"

contentFileExts == {".markdown", ".mdown", ".mkdn", ".mkd", ".mdwn", ".md", ".mdx"}

\* getContentPaths(settings.config): the content root and the schema-config file.
contentDir == <<"src", "content">>

configPath == <<"src", "content", "config", ".ts">>

\* A file of the fixture, by its real path: what readFile and parseFrontmatter
\* give for it. read is "ok" or "enoent"; matter is "ok" or "malformed".
FileA == [path |-> <<"src", "content", "blog", "a", ".md">>, read |-> "ok",
          matter |-> "ok", data |-> "title:Hi", body |-> <<"hello", "import.meta.env">>]

FileB == [path |-> <<"src", "content", "blog", "b", ".mdx">>, read |-> "ok",
          matter |-> "ok", data |-> "title:42", body |-> <<"process.env">>]

FileO == [path |-> <<"src", "pages", "c", ".md">>, read |-> "ok",
          matter |-> "ok", data |-> "title:Hi", body |-> <<"page">>]

FileD == [path |-> <<"src", "content", "blog", "d", ".md">>, read |-> "enoent",
          matter |-> "ok", data |-> "", body |-> <<>>]

FileE == [path |-> <<"src", "content", "blog", "e", ".md">>, read |-> "ok",
          matter |-> "malformed", data |-> "", body |-> <<>>]

FileT == [path |-> <<"src", "content", "blog", "a", ".ts">>, read |-> "ok",
          matter |-> "ok", data |-> "", body |-> <<"code">>]

Files == {FileA, FileB, FileO, FileD, FileE, FileT}

FileAt(p) == CHOOSE f \in Files : f.path = p

\* A module request id: a pathname and the names of its query parameters.
Id(p, q) == [pathname |-> p, query |-> q]

Ids == {Id(f.path, {CONTENT_FLAG}) : f \in Files} \cup {Id(FileA.path, {"raw"})}

\* pathname.endsWith(ext), on a pathname whose last element is its extension.
EndsWith(p, ext) == Len(p) > 0 /\ p[Len(p)] = ext

isContentFlagImportNoExt(viteId) == CONTENT_FLAG \in viteId.query

isContentFlagImport(viteId) ==
    /\ CONTENT_FLAG \in viteId.query
    /\ \E ext \in contentFileExts : EndsWith(viteId.pathname, ext)

\* getFileInfo(id, config).fileId: the real path, query parameters stripped.
getFileInfo(id) == id.pathname

IsPrefix(s, t) == Len(s) <= Len(t) /\ SubSeq(t, 1, Len(s)) = s

\* getEntryInfo({entry, contentDir}): the collection and id of a path under a
\* collection directory of the content root, an Error for any other path.
EntryError == [error |-> "NoCollectionError"]

getEntryInfo(entry) ==
    IF IsPrefix(contentDir, entry) /\ Len(entry) >= Len(contentDir) + 3
    THEN [collection |-> entry[Len(contentDir) + 1],
          id |-> SubSeq(entry, Len(contentDir) + 2, Len(entry))]
    ELSE EntryError

\* getEntrySlug: the id without its extension (no front-matter override in the fixture).
getEntrySlug(info) == SubSeq(info.id, 1, Len(info.id) - 1)

\* getEntryType(entry, contentPaths)
getEntryType(entry) ==
    IF entry = configPath THEN "config"
    ELSE IF IsPrefix(contentDir, entry) /\ entry # contentDir THEN "content"
    ELSE "ignored"

\* getEntryData(entry, collectionConfig): the schema of the fixture requires
\* title: string; accepted data comes back parsed, rejected data throws.
ValidationError == [error |-> "ValidationError"]

getEntryData(data) ==
    IF data = "title:Hi" THEN [validated |-> TRUE, value |-> data] ELSE ValidationError

\* unparsedData as the module exports it when no schema applies.
RawData(data) == [validated |-> FALSE, value |-> data]

\* escapeViteEnvReferences(code)
EscapeToken(t) ==
    IF t = "import.meta.env" THEN "import\\u002Emeta.env"
    ELSE IF t = "process.env" THEN "process\\u002Eenv"
    ELSE t

escapeViteEnvReferences(code) == [i \in 1..Len(code) |-> EscapeToken(code[i])]

\* ------------------------------------------------------------------- state

LoadIds == 1..MaxLoads

HookIds == 1..MaxHooks

\* What the watcher reports: add, change and unlink of a file (the
\* schema-config file, a content file), addDir and unlinkDir of a directory
\* (the content root, a directory outside it).
Event(name, entry) == [name |-> name, entry |-> entry]

WatcherEvents ==
    {Event(n, e) : n \in {"add", "change", "unlink"}, e \in {configPath, FileA.path}}
        \cup {Event(n, e) : n \in {"addDir", "unlinkDir"},
                            e \in {contentDir, <<"src", "pages">>}}

\* The ContentConfig values loadContentConfig may produce, each the set of
\* collections it holds a schema for: none, or the blog collection.
Configs == {{}, {"blog"}}

NoConfig == {}

\* A ContentCtx: {status: 'loading'}, {status: 'loaded', config} or
\* {status: 'error'}.
Ctx(status, config) ==
    [status |-> status, config |-> IF status = "loaded" THEN config ELSE NoConfig]

Loading == Ctx("loading", NoConfig)

Resolutions == {Ctx("loaded", c) : c \in Configs} \cup {Ctx("error", NoConfig)}

NoCtx == [status |-> "none", config |-> NoConfig]

NoCode ==
    [id |-> <<>>, collection |-> "", slug |-> <<>>, body |-> <<>>,
     data |-> [validated |-> FALSE, value |-> ""], filePath |-> <<>>, rawData |-> ""]

\* A load call: pc is its position, ctx the ContentCtx it took its config
\* from, res what it returned (nothing: undefined, module: {code}), err what
\* it threw. readObs: it called contentConfigObserver.get(); subscribed: its
\* subscriber is registered; fresh: no ctx was published since it took ctx;
\* invalidated: its module was invalidated while it was in flight.
IdleLoad ==
    [pc |-> "idle", id |-> Id(<<>>, {}), ctx |-> NoCtx, readObs |-> FALSE,
     subscribed |-> FALSE, fresh |-> FALSE, invalidated |-> FALSE,
     res |-> "pending", err |-> "none", code |-> NoCode]

\* A run of the invalidation hook: pos is the index of the key whose module it
\* awaits, known the content urls of the graph when the event arrived, log the
\* urls it has invalidated; a finished run keeps the known urls it missed
\* and whether it invalidated one twice.
IdleHook ==
    [pc |-> "idle", pos |-> 0, known |-> {}, log |-> <<>>, missed |-> {},
     twice |-> FALSE]

\* A module of the graph: whether its transform result is cached, and whether
\* no ctx was published since the ctx the result was produced from.
NoResult == [cached |-> FALSE, fresh |-> FALSE]

\* ------------------------------------------------------ head-and-content.ts

\* A JavaScript value: kind tells null, undefined, the primitives, functions
\* and plain objects apart; marker is what the value holds under
\* Symbol.for('astro.headAndContent'), head and content its two properties
\* ("undefined" where it has none).
Markers == {"undefined", "true", "false", "0", "1", "''", "'x'", "null"}

Heads == {"", "<title>", "template:head"}

Contents == {"template:a", "template:b"}

Primitive(kind, prim) ==
    [kind |-> kind, prim |-> prim, marker |-> "undefined", head |-> "undefined",
     content |-> "undefined"]

Primitives ==
    {Primitive("undefined", "undefined"), Primitive("null", "null"),
     Primitive("boolean", "true"), Primitive("boolean", "false"),
     Primitive("number", "0"), Primitive("number", "1"),
     Primitive("string", "''"), Primitive("string", "'x'")}

Objects ==
    [kind : {"object", "function"}, prim : {"none"}, marker : Markers,
     head : Heads \cup {"undefined"}, content : Contents \cup {"undefined"}]

JsValues == Primitives \cup Objects

\* typeof obj
TypeOf(obj) == IF obj.kind = "null" THEN "object" ELSE obj.kind

\* !!x
Truthy(x) == x \notin {"undefined", "false", "0", "''", "null"}

Returned(b) == [threw |-> FALSE, value |-> b]

TypeError == [threw |-> TRUE, value |-> FALSE]

\* obj[headAndContentSym]: reading a property of null or undefined throws.
GetMarker(obj) ==
    IF obj.kind \in {"null", "undefined"} THEN TypeError
    ELSE [threw |-> FALSE, value |-> obj.marker]

\* isHeadAndContent(obj), lines 11-13.
isHeadAndContent(obj) ==
    IF TypeOf(obj) = "object"
    THEN IF GetMarker(obj).threw THEN TypeError
         ELSE Returned(Truthy(GetMarker(obj).value))
    ELSE Returned(FALSE)

\* createHeadAndContent(head, content), lines 15-24.
createHeadAndContent(head, content) ==
    [kind |-> "object", prim |-> "none", marker |-> "true", head |-> head,
     content |-> content]

NoValue == Primitive("undefined", "undefined")

\* pc: idle, made (obj was built by createHeadAndContent from head and
\* content), given (obj is any value), checked (isHeadAndContent returned
\* out.value), threw (isHeadAndContent threw).
IdleCheck ==
    [pc |-> "idle", head |-> "undefined", content |-> "undefined", obj |-> NoValue,
     out |-> Returned(FALSE)]

VARIABLES
    dirAtStart,     \* fs.existsSync(contentPaths.contentDir) at configureServer
    srv,            \* configureServer of the content server plugin: its position
    dirListener,    \* contentDirListener is registered on 'addDir'
    hookOn,         \* the flag plugin's 'all' listener is registered
    generators,     \* the content generators created, in order of creation
    obs,            \* contentConfigObserver's current ctx
    subscribers,    \* contentConfigObserver's subscribers, in subscription order
    microtasks,     \* loads whose promise was resolved, in resolution order
    loads,          \* the load / transform calls, by request slot
    keys,           \* moduleGraph.urlToModuleMap.keys(), in insertion order
    mods,           \* moduleGraph: each url's module
    hooks,          \* runs of the invalidation hook
    hc              \* a use of head-and-content.ts: the value at hand, the result

vars ==
    <<dirAtStart, srv, dirListener, hookOn, generators, obs, subscribers,
      microtasks, loads, keys, mods, hooks, hc>>

\* ------------------------------------------------------- config observable

\* The subscriber of load (lines 115-123), called with ctx for the load ld:
\* resolve(ctx.config) and unsubscribe() on loaded, resolve(undefined) and
\* unsubscribe() on error, nothing on loading.
OnNotifyErrorIgnored(ld, ctx) ==
    IF ctx.status = "loaded"
    THEN [ld EXCEPT !.pc = "notified", !.ctx = ctx, !.fresh = TRUE,
                    !.subscribed = FALSE]
    ELSE ld

OnNotifyNoUnsubscribe(ld, ctx) ==
    IF ctx.status = "loaded"
    THEN [ld EXCEPT !.pc = "notified", !.ctx = ctx, !.fresh = TRUE]
    ELSE IF ctx.status = "error"
    THEN [ld EXCEPT !.pc = "notified", !.ctx = ctx, !.fresh = TRUE,
                    !.subscribed = FALSE]
    ELSE ld

OnNotify(ld, ctx) ==
    IF ctx.status = "loaded"
    THEN [ld EXCEPT !.pc = "notified", !.ctx = ctx, !.fresh = TRUE,
                    !.subscribed = FALSE]
    ELSE IF ctx.status = "error"
    THEN [ld EXCEPT !.pc = "notified", !.ctx = ctx, !.fresh = TRUE,
                    !.subscribed = FALSE]
    ELSE ld

\* A promise is resolved once: a subscriber called again after its resolve
\* changes nothing.
Called(ld, ctx) == IF ld.pc = "waiting" THEN OnNotify(ld, ctx) ELSE ld

IsSubscriber(l) == \E i \in 1..Len(subscribers) : subscribers[i] = l

\* contentConfigObserver.set(ctx): replaces the ctx and calls every subscriber
\* with it, in subscription order. Every ctx taken before is now an earlier one.
Set(ctx) ==
    LET aged == [l \in LoadIds |-> [loads[l] EXCEPT !.fresh = FALSE]]
        after == [l \in LoadIds |->
                    IF IsSubscriber(l) THEN Called(aged[l], ctx) ELSE aged[l]]
        woken == SelectSeq(subscribers,
                    LAMBDA l : loads[l].pc = "waiting" /\ after[l].pc = "notified")
    IN  /\ obs' = ctx
        /\ loads' = after
        /\ subscribers' = SelectSeq(subscribers, LAMBDA l : after[l].subscribed)
        /\ microtasks' = microtasks \o woken
        /\ mods' = [u \in Ids |-> [mods[u] EXCEPT !.fresh = FALSE]]

\* ------------------------------------------------------------------ Init

Init ==
    /\ dirAtStart \in BOOLEAN
    /\ srv = "start"
    /\ dirListener = FALSE
    /\ hookOn = FALSE
    /\ generators = <<>>
    /\ obs = Loading
    /\ subscribers = <<>>
    /\ microtasks = <<>>
    /\ loads = [l \in LoadIds |-> IdleLoad]
    /\ keys = <<>>
    /\ mods = [u \in Ids |-> NoResult]
    /\ hooks = [h \in HookIds |-> IdleHook]
    /\ hc = IdleCheck

\* ------------------------------------------- astro-content-server-plugin

\* A generator: from is the call of attachListeners that creates it, pc its
\* position (init: inside initContentGenerator; inited: init() has published;
\* idle / reloading: listeners attached), queue its queued events.
NewGenerator(from) == [pc |-> "init", from |-> from, queue |-> <<>>]

\* configureServer (lines 58-80), up to its first await; the flag plugin's
\* configureServer (lines 163-180) runs once this one has returned.
ConfigureServer ==
    /\ srv = "start"
    /\ IF dirAtStart
       THEN /\ generators' = Append(generators, NewGenerator("startup"))
            /\ srv' = "attaching"
            /\ UNCHANGED <<dirListener, hookOn>>
       ELSE /\ dirListener' = TRUE
            /\ hookOn' = TRUE
            /\ srv' = "ready"
            /\ UNCHANGED generators
    /\ UNCHANGED <<hc, dirAtStart, obs, subscribers, microtasks, loads, keys, mods,
                   hooks>>

\* initContentGenerator (lines 38-47): contentGenerator.init() loads the
\* schema config and publishes loaded or error.
InitContentGenerator(g) ==
    /\ generators[g].pc = "init"
    /\ \E ctx \in Resolutions : Set(ctx)
    /\ generators' = [generators EXCEPT ![g].pc = "inited"]
    /\ UNCHANGED <<hc, dirAtStart, srv, dirListener, hookOn, keys, hooks>>

\* What the continuation of contentDirListener does to the listener once
\* attachListeners has resolved (line 77).
RemoveDirListener(from, registered) ==
    IF from = "addDir" THEN FALSE ELSE registered

\* attachListeners (lines 82-101) after initContentGenerator has resolved, and
\* the continuation of its caller: contentDirListener removes itself (line
\* 77); configureServer returns and the flag plugin registers its hook.
AttachListeners(g) ==
    /\ generators[g].pc = "inited"
    /\ generators' = [generators EXCEPT ![g].pc = "idle"]
    /\ dirListener' = RemoveDirListener(generators[g].from, dirListener)
    /\ IF generators[g].from = "startup"
       THEN srv' = "ready" /\ hookOn' = TRUE
       ELSE UNCHANGED <<srv, hookOn>>
    /\ UNCHANGED <<hc, dirAtStart, obs, subscribers, microtasks, loads, keys, mods,
                   hooks>>

\* ------------------------------------------------- content types generator

\* queueEvent(rawEvent): an event outside the content root is dropped.
QueueEvent(gen, e) ==
    IF gen.pc \in {"idle", "reloading"} /\ IsPrefix(contentDir, e.entry)
    THEN [gen EXCEPT !.queue = Append(gen.queue, e)]
    ELSE gen

\* Whether a queued event makes the generator reload the schema config:
\* directory events are classified apart from file events.
ReloadsConfig(e) ==
    /\ e.name \in {"add", "change", "unlink"}
    /\ getEntryType(e.entry) = "config"

\* The generator takes the next queued event: an event of the schema-config
\* file republishes loading and starts the reload, any other changes no
\* config state.
HandleEvent(g) ==
    /\ generators[g].pc = "idle"
    /\ generators[g].queue # <<>>
    /\ IF ReloadsConfig(Head(generators[g].queue))
       THEN /\ Set(Loading)
            /\ generators' = [generators EXCEPT ![g].pc = "reloading",
                                                ![g].queue = Tail(@)]
       ELSE /\ generators' = [generators EXCEPT ![g].queue = Tail(@)]
            /\ UNCHANGED <<obs, subscribers, microtasks, loads, mods>>
    /\ UNCHANGED <<hc, dirAtStart, srv, dirListener, hookOn, keys, hooks>>

\* The reload settles: loaded with the new config, or error.
SettleReload(g) ==
    /\ generators[g].pc = "reloading"
    /\ \E ctx \in Resolutions : Set(ctx)
    /\ generators' = [generators EXCEPT ![g].pc = "idle"]
    /\ UNCHANGED <<hc, dirAtStart, srv, dirListener, hookOn, keys, hooks>>

\* ------------------------------------------------------- invalidation hook

InKeys(ks, u) == \E i \in 1..Len(ks) : ks[i] = u

ContentKeys(ks) == {ks[i] : i \in {j \in 1..Len(ks) : isContentFlagImport(ks[j])}}

\* The for-of loop over urlToModuleMap.keys() (line 170): the index of the
\* first key at or after from that passes the filter of line 171, 0 when the
\* iterator is exhausted. The iterator is live: keys added during the run are
\* visited.
NextContentKeySkipping(ks, from) ==
    LET hits == {i \in (from + 1)..Len(ks) : isContentFlagImport(ks[i])}
    IN  IF hits = {} THEN 0 ELSE CHOOSE i \in hits : \A j \in hits : i <= j

NextContentKey(ks, from) ==
    LET hits == {i \in from..Len(ks) : isContentFlagImport(ks[i])}
    IN  IF hits = {} THEN 0 ELSE CHOOSE i \in hits : \A j \in hits : i <= j

\* The guard of the 'all' listener (lines 165-168).
TouchesConfigAnyKind(name, entry) == getEntryType(entry) = "config"

TouchesConfig(name, entry) ==
    /\ name \in {"add", "unlink", "change"}
    /\ getEntryType(entry) = "config"

\* A run that has reached the end of the loop.
Finished(known, log) ==
    [pc |-> "done", pos |-> 0, known |-> {}, log |-> <<>>,
     missed |-> {u \in known : \A i \in 1..Len(log) : log[i] # u},
     twice |-> \E i, j \in 1..Len(log) : i # j /\ log[i] = log[j]]

\* The run from index from to its next await (line 172) or to its end.
RunHook(known, log, from) ==
    LET p == NextContentKey(keys, from)
    IN  IF p = 0 THEN Finished(known, log)
        ELSE [pc |-> "awaiting", pos |-> p, known |-> known, log |-> log,
              missed |-> {}, twice |-> FALSE]

FreeHook == CHOOSE h \in HookIds : hooks[h].pc # "awaiting"

\* viteServer.moduleGraph.invalidateModule(mod) (line 174): the cached
\* transform result is dropped.
InvalidateModule(ms, u) == [ms EXCEPT ![u] = NoResult]

\* The hook resumes from await getModuleByUrl (line 172), invalidates the
\* module (a request in flight for it will not cache its result) and runs on
\* to its next await or to the end of the loop.
HookStep(h) ==
    /\ hooks[h].pc = "awaiting"
    /\ LET u == keys[hooks[h].pos] IN
        /\ mods' = InvalidateModule(mods, u)
        /\ loads' = [l \in LoadIds |->
                       IF loads[l].id = u /\ loads[l].pc \notin {"idle", "done", "failed"}
                       THEN [loads[l] EXCEPT !.invalidated = TRUE]
                       ELSE loads[l]]
        /\ hooks' = [hooks EXCEPT ![h] =
                       RunHook(hooks[h].known, Append(hooks[h].log, u), hooks[h].pos + 1)]
    /\ UNCHANGED <<hc, dirAtStart, srv, dirListener, hookOn, generators, obs,
                   subscribers, microtasks, keys>>

\* ----------------------------------------------------------------- watcher

\* The guard of contentDirListener (line 74).
IsContentDirOrSibling(dir) == Len(dir) = Len(contentDir) /\ dir[1] = contentDir[1]

IsContentDir(dir) == dir = contentDir

\* What a forwarding listener passes to queueEvent (lines 86-100).
ForwardedEventOfConfig(name, entry) == Event(name, configPath)

ForwardedEvent(name, entry) == Event(name, entry)

\* The watcher emits name for entry: contentDirListener (lines 73-79) up to
\* its await, the forwarding listeners of every attached generator (lines
\* 86-100), then the flag plugin's 'all' listener (lines 164-179).
WatcherEvent(name, entry) ==
    LET startsGenerator == dirListener /\ name = "addDir" /\ IsContentDir(entry)
        startsHook == hookOn /\ TouchesConfig(name, entry)
        forwarded == [g \in 1..Len(generators) |->
                        QueueEvent(generators[g], ForwardedEvent(name, entry))]
    IN  /\ srv = "ready"
        /\ startsGenerator => Len(generators) < MaxGenerators
        /\ \A g \in 1..Len(generators) : Len(forwarded[g].queue) <= MaxQueue
        /\ startsHook => \E h \in HookIds : hooks[h].pc # "awaiting"
        /\ generators' = IF startsGenerator
                         THEN Append(forwarded, NewGenerator("addDir"))
                         ELSE forwarded
        /\ hooks' = IF startsHook
                    THEN [hooks EXCEPT ![FreeHook] = RunHook(ContentKeys(keys), <<>>, 1)]
                    ELSE hooks
        /\ UNCHANGED <<hc, dirAtStart, srv, dirListener, hookOn, obs, subscribers,
                       microtasks, loads, keys, mods>>

\* ------------------------------------------------ astro-content-flag-plugin

\* contentConfig (lines 110-111, 117, 120): the config of a loaded ctx, else
\* undefined.
ContentConfig(ctx) == IF ctx.status = "loaded" THEN ctx.config ELSE NoConfig

\* The template of lines 149-159, escaped.
ModuleCodeOfCurrentState(file, info, data) ==
    [id |-> info.id, collection |-> info.collection, slug |-> getEntrySlug(info),
     body |-> escapeViteEnvReferences(file.body),
     data |-> IF obs.status = "loaded" THEN data ELSE RawData(file.data),
     filePath |-> file.path, rawData |-> file.data]

ModuleCode(file, info, data) ==
    [id |-> info.id, collection |-> info.collection, slug |-> getEntrySlug(info),
     body |-> escapeViteEnvReferences(file.body), data |-> data,
     filePath |-> file.path, rawData |-> file.data]

\* load(id), lines 106-125, up to its first await: a request that is no
\* content import returns nothing; a content import reads the observable and,
\* when it is loading, subscribes and waits.
LoadBegin(ld, id) ==
    IF ~isContentFlagImport(id)
    THEN [ld EXCEPT !.id = id, !.pc = "loaded", !.res = "nothing"]
    ELSE IF obs.status = "loading"
    THEN [ld EXCEPT !.id = id, !.pc = "waiting", !.readObs = TRUE, !.subscribed = TRUE]
    ELSE [ld EXCEPT !.id = id, !.pc = "reading", !.readObs = TRUE, !.ctx = obs,
                    !.fresh = TRUE]

\* transform(code, id), lines 181-187, on what load returned: the code of a
\* content import is escaped again, any other module is left alone.
TransformEscapesAgain(ld) ==
    IF isContentFlagImport(ld.id)
    THEN [ld EXCEPT !.pc = "done",
                    !.code = [@ EXCEPT !.body =
                        [i \in 1..Len(@) |->
                            IF @[i] = "import\\u002Emeta.env"
                            THEN "import\\u002Emeta\\u002Eenv"
                            ELSE EscapeToken(@[i])]]]
    ELSE [ld EXCEPT !.pc = "done"]

Transform(ld) ==
    IF isContentFlagImport(ld.id)
    THEN [ld EXCEPT !.pc = "done",
                    !.code = [@ EXCEPT !.body = escapeViteEnvReferences(@)]]
    ELSE [ld EXCEPT !.pc = "done"]

\* The request's pipeline after load has returned: a load that returned
\* nothing for a path without entry info ends there; otherwise transform runs
\* and the module graph caches the result, unless the module was invalidated
\* while the request was in flight. A request that is over keeps no flag of a
\* request in flight.
Finish(ld) ==
    LET end == IF ld.pc = "loaded" THEN Transform(ld) ELSE ld
    IN  IF end.pc \in {"done", "failed"}
        THEN [end EXCEPT !.fresh = FALSE, !.invalidated = FALSE]
        ELSE end

Cache(ms, before, after) ==
    IF after.pc = "done" /\ before.pc = "loaded" /\ ~before.invalidated
    THEN [ms EXCEPT ![after.id] = [cached |-> TRUE, fresh |-> before.fresh]]
    ELSE ms

\* A module request arrives: the module graph gets its entry, then load runs.
LoadStart(l, id) ==
    /\ srv = "ready"
    /\ loads[l].pc = "idle"
    /\ \A k \in LoadIds : k < l => loads[k].pc # "idle"
    /\ \A k \in LoadIds : loads[k].id = id => loads[k].pc \in {"idle", "done", "failed"}
    /\ loads' = [loads EXCEPT ![l] = Finish(LoadBegin(loads[l], id))]
    /\ subscribers' = IF loads'[l].subscribed THEN Append(subscribers, l)
                      ELSE subscribers
    /\ keys' = IF InKeys(keys, id) THEN keys ELSE Append(keys, id)
    /\ mods' = Cache(mods, LoadBegin(loads[l], id), loads'[l])
    /\ UNCHANGED <<hc, dirAtStart, srv, dirListener, hookOn, generators, obs,
                   microtasks, hooks>>

\* The promise of lines 114-124 was resolved: load resumes with the config the
\* subscriber resolved it with and starts reading the file (line 126).
LoadResumedRereads(ld) == [ld EXCEPT !.pc = "reading", !.ctx = obs]

LoadResumed(ld) == [ld EXCEPT !.pc = "reading"]

LoadResumeAnyOrder(l) ==
    /\ loads[l].pc = "notified"
    /\ \E i \in 1..Len(microtasks) : microtasks[i] = l
    /\ microtasks' = SelectSeq(microtasks, LAMBDA k : k # l)
    /\ loads' = [loads EXCEPT ![l] = LoadResumed(loads[l])]
    /\ UNCHANGED <<hc, dirAtStart, srv, dirListener, hookOn, generators, obs,
                   subscribers, keys, mods, hooks>>

LoadResume(l) ==
    /\ loads[l].pc = "notified"
    /\ microtasks # <<>>
    /\ Head(microtasks) = l
    /\ microtasks' = Tail(microtasks)
    /\ loads' = [loads EXCEPT ![l] = LoadResumed(loads[l])]
    /\ UNCHANGED <<hc, dirAtStart, srv, dirListener, hookOn, generators, obs,
                   subscribers, keys, mods, hooks>>

\* Lines 126-160, from the completed file read to the return: an unreadable
\* file and a malformed front-matter throw, a path without entry info returns
\* nothing (line 136), a collection with a schema is validated (lines 144-147).
LoadEndErrorValidates(ld) ==
    LET file == FileAt(getFileInfo(ld.id))
        info == getEntryInfo(file.path)
    IN  IF file.read # "ok" THEN [ld EXCEPT !.pc = "failed", !.err = "io"]
        ELSE IF file.matter # "ok" THEN [ld EXCEPT !.pc = "failed", !.err = "parse"]
        ELSE IF info = EntryError THEN [ld EXCEPT !.pc = "done", !.res = "nothing"]
        ELSE IF ld.ctx.status = "error" \/ info.collection \in ContentConfig(ld.ctx)
        THEN IF getEntryData(file.data) = ValidationError
             THEN [ld EXCEPT !.pc = "failed", !.err = "validation"]
             ELSE [ld EXCEPT !.pc = "loaded", !.res = "module",
                             !.code = ModuleCode(file, info, getEntryData(file.data))]
        ELSE [ld EXCEPT !.pc = "loaded", !.res = "module",
                        !.code = ModuleCode(file, info, RawData(file.data))]

LoadEndInfoThrows(ld) ==
    LET file == FileAt(getFileInfo(ld.id))
        info == getEntryInfo(file.path)
    IN  IF file.read # "ok" THEN [ld EXCEPT !.pc = "failed", !.err = "io"]
        ELSE IF file.matter # "ok" THEN [ld EXCEPT !.pc = "failed", !.err = "parse"]
        ELSE IF info = EntryError THEN [ld EXCEPT !.pc = "failed", !.err = "entry"]
        ELSE IF info.collection \in ContentConfig(ld.ctx)
        THEN IF getEntryData(file.data) = ValidationError
             THEN [ld EXCEPT !.pc = "failed", !.err = "validation"]
             ELSE [ld EXCEPT !.pc = "loaded", !.res = "module",
                             !.code = ModuleCode(file, info, getEntryData(file.data))]
        ELSE [ld EXCEPT !.pc = "loaded", !.res = "module",
                        !.code = ModuleCode(file, info, RawData(file.data))]

LoadEndRejectedEmitsRaw(ld) ==
    LET file == FileAt(getFileInfo(ld.id))
        info == getEntryInfo(file.path)
    IN  IF file.read # "ok" THEN [ld EXCEPT !.pc = "failed", !.err = "io"]
        ELSE IF file.matter # "ok" THEN [ld EXCEPT !.pc = "failed", !.err = "parse"]
        ELSE IF info = EntryError THEN [ld EXCEPT !.pc = "done", !.res = "nothing"]
        ELSE IF info.collection \in ContentConfig(ld.ctx)
                    /\ getEntryData(file.data) # ValidationError
        THEN [ld EXCEPT !.pc = "loaded", !.res = "module",
                        !.code = ModuleCode(file, info, getEntryData(file.data))]
        ELSE [ld EXCEPT !.pc = "loaded", !.res = "module",
                        !.code = ModuleCode(file, info, RawData(file.data))]

LoadEnd(ld) ==
    LET file == FileAt(getFileInfo(ld.id))
        info == getEntryInfo(file.path)
    IN  IF file.read # "ok" THEN [ld EXCEPT !.pc = "failed", !.err = "io"]
        ELSE IF file.matter # "ok" THEN [ld EXCEPT !.pc = "failed", !.err = "parse"]
        ELSE IF info = EntryError THEN [ld EXCEPT !.pc = "done", !.res = "nothing"]
        ELSE IF info.collection \in ContentConfig(ld.ctx)
        THEN IF getEntryData(file.data) = ValidationError
             THEN [ld EXCEPT !.pc = "failed", !.err = "validation"]
             ELSE [ld EXCEPT !.pc = "loaded", !.res = "module",
                             !.code = ModuleCode(file, info, getEntryData(file.data))]
        ELSE [ld EXCEPT !.pc = "loaded", !.res = "module",
                        !.code = ModuleCode(file, info, RawData(file.data))]

\* What a load does to the observable whatever its end: nothing.
AfterLoadPublishesError(ctx, ld) ==
    IF ld.pc = "failed" THEN Ctx("error", NoConfig) ELSE ctx

AfterLoad(ctx, ld) == ctx

LoadRead(l) ==
    /\ loads[l].pc = "reading"
    /\ loads' = [loads EXCEPT ![l] = Finish(LoadEnd(loads[l]))]
    /\ obs' = AfterLoad(obs, loads'[l])
    /\ mods' = Cache(mods, LoadEnd(loads[l]), loads'[l])
    /\ UNCHANGED <<hc, dirAtStart, srv, dirListener, hookOn, generators,
                   subscribers, microtasks, keys, hooks>>

\* ------------------------------------------------------------ specification

Next ==
    \/ ConfigureServer
    \/ \E g \in 1..Len(generators) : InitContentGenerator(g)
    \/ \E g \in 1..Len(generators) : AttachListeners(g)
    \/ \E g \in 1..Len(generators) : HandleEvent(g)
    \/ \E g \in 1..Len(generators) : SettleReload(g)
    \/ \E e \in WatcherEvents : WatcherEvent(e.name, e.entry)
    \/ \E h \in HookIds : HookStep(h)
    \/ \E l \in LoadIds, id \in Ids : LoadStart(l, id)
    \/ \E l \in LoadIds : LoadResume(l)
    \/ \E l \in LoadIds : LoadRead(l)

Spec == Init /\ [][Next]_vars

\* The dev server started with the content root in place.
InitDev == Init /\ dirAtStart = TRUE

SpecDev == InitDev /\ [][Next]_vars

\* The dev server started before the content root exists, serving one module
\* request.
NextLate ==
    \/ ConfigureServer
    \/ \E g \in 1..Len(generators) : InitContentGenerator(g)
    \/ \E g \in 1..Len(generators) : AttachListeners(g)
    \/ \E g \in 1..Len(generators) : HandleEvent(g)
    \/ \E g \in 1..Len(generators) : SettleReload(g)
    \/ \E e \in WatcherEvents : WatcherEvent(e.name, e.entry)
    \/ \E h \in HookIds : HookStep(h)
    \/ \E id \in Ids : LoadStart(1, id)
    \/ LoadResume(1)
    \/ LoadRead(1)

InitLate == Init /\ dirAtStart = FALSE

SpecLate == InitLate /\ [][NextLate]_vars

\* The watcher reports no event of the schema-config file.
NextQuiet ==
    \/ ConfigureServer
    \/ \E g \in 1..Len(generators) : InitContentGenerator(g)
    \/ \E g \in 1..Len(generators) : AttachListeners(g)
    \/ \E g \in 1..Len(generators) : HandleEvent(g)
    \/ \E e \in {w \in WatcherEvents : w.entry # configPath} :
          WatcherEvent(e.name, e.entry)
    \/ \E l \in LoadIds, id \in Ids : LoadStart(l, id)
    \/ \E l \in LoadIds : LoadResume(l)
    \/ \E l \in LoadIds : LoadRead(l)

SpecQuiet == Init /\ [][NextQuiet]_vars

\* The only watcher events are those of the schema-config file.
NextReload ==
    \/ ConfigureServer
    \/ \E g \in 1..Len(generators) : InitContentGenerator(g)
    \/ \E g \in 1..Len(generators) : AttachListeners(g)
    \/ \E g \in 1..Len(generators) : HandleEvent(g)
    \/ \E g \in 1..Len(generators) : SettleReload(g)
    \/ \E e \in {w \in WatcherEvents : w.entry = configPath} :
          WatcherEvent(e.name, e.entry)
    \/ \E h \in HookIds : HookStep(h)
    \/ \E l \in LoadIds, id \in Ids : LoadStart(l, id)
    \/ \E l \in LoadIds : LoadResume(l)
    \/ \E l \in LoadIds : LoadRead(l)

\* The event loop runs the microtask queue: the continuation of a load whose
\* promise was resolved is eventually run.
Fairness == WF_vars(\E l \in LoadIds : LoadResume(l))

FairSpecReload == InitDev /\ [][NextReload]_vars /\ Fairness

\* The watcher also reports addDir and unlinkDir of the schema-config path.
AllWatcherEvents ==
    WatcherEvents \cup {Event(n, configPath) : n \in {"addDir", "unlinkDir"}}

NextWatch ==
    \/ ConfigureServer
    \/ \E g \in 1..Len(generators) : InitContentGenerator(g)
    \/ \E g \in 1..Len(generators) : AttachListeners(g)
    \/ \E g \in 1..Len(generators) : HandleEvent(g)
    \/ \E g \in 1..Len(generators) : SettleReload(g)
    \/ \E e \in AllWatcherEvents : WatcherEvent(e.name, e.entry)
    \/ \E h \in HookIds : HookStep(h)
    \/ \E l \in LoadIds, id \in Ids : LoadStart(l, id)
    \/ \E l \in LoadIds : LoadResume(l)
    \/ \E l \in LoadIds : LoadRead(l)

SpecWatch == InitDev /\ [][NextWatch]_vars

\* The content root is absent at startup and the watcher never reports its
\* arrival: every load of a content import waits.
NextAbsent ==
    \/ ConfigureServer
    \/ \E e \in {w \in AllWatcherEvents : ~(w.name = "addDir" /\ w.entry = contentDir)} :
          WatcherEvent(e.name, e.entry)
    \/ \E h \in HookIds : HookStep(h)
    \/ \E l \in LoadIds, id \in Ids : LoadStart(l, id)

SpecAbsent == InitLate /\ [][NextAbsent]_vars

\* ------------------------------------------------------ head-and-content.ts

CreateHeadAndContent(head, content) ==
    /\ hc.pc = "idle"
    /\ hc' = [hc EXCEPT !.pc = "made", !.head = head, !.content = content,
                        !.obj = createHeadAndContent(head, content)]
    /\ UNCHANGED <<dirAtStart, srv, dirListener, hookOn, generators, obs,
                   subscribers, microtasks, loads, keys, mods, hooks>>

GiveValue(v) ==
    /\ hc.pc = "idle"
    /\ hc' = [hc EXCEPT !.pc = "given", !.obj = v]
    /\ UNCHANGED <<dirAtStart, srv, dirListener, hookOn, generators, obs,
                   subscribers, microtasks, loads, keys, mods, hooks>>

IsHeadAndContent ==
    /\ hc.pc \in {"made", "given"}
    /\ hc' = [hc EXCEPT !.out = isHeadAndContent(hc.obj),
                        !.pc = IF isHeadAndContent(hc.obj).threw THEN "threw"
                               ELSE "checked"]
    /\ UNCHANGED <<dirAtStart, srv, dirListener, hookOn, generators, obs,
                   subscribers, microtasks, loads, keys, mods, hooks>>

NextHead ==
    \/ \E head \in Heads, content \in Contents : CreateHeadAndContent(head, content)
    \/ \E v \in JsValues : GiveValue(v)
    \/ IsHeadAndContent

SpecHead == InitDev /\ [][NextHead]_vars

\* ------------------------------------------------------------------ claims

Suspended(l) == loads[l].pc = "waiting"

Over(l) == loads[l].pc \in {"done", "failed"}

\* C1: a load that found the observable loading stays suspended, having read
\* no file and emitted nothing, until a ctx of status loaded or error is set;
\* the step that ends its suspension is that set, it leaves the load holding
\* exactly the ctx set, and the load keeps that ctx to its end whatever is
\* published before or after.
C1_ResolutionSnapshot ==
    [][\A l \in LoadIds :
        /\ (Suspended(l) /\ ~Suspended(l)') =>
              /\ obs.status = "loading"
              /\ obs'.status \in {"loaded", "error"}
              /\ loads'[l].pc = "notified"
              /\ loads'[l].ctx = obs'
              /\ loads'[l].res = "pending"
        /\ Suspended(l) => loads[l].ctx = NoCtx /\ loads[l].res = "pending"
        /\ (loads[l].pc \in {"notified", "reading"} /\ loads'[l].pc # "idle") =>
              loads'[l].ctx = loads[l].ctx]_vars

\* A resumption is pending with the config of a resolution while the
\* observable is already loading for the next generation.
C1_Witness ==
    \E l \in LoadIds :
        /\ loads[l].pc = "notified"
        /\ loads[l].ctx.status = "loaded"
        /\ obs.status = "loading"

\* C2: a run of the invalidation hook never invalidates a url twice, and once
\* it has finished it has invalidated every content url the module graph knew
\* when its event arrived.
C2_InvalidatedExactlyOnce ==
    \A h \in HookIds :
        /\ hooks[h].pc = "done" => hooks[h].missed = {} /\ ~hooks[h].twice
        /\ \A i, j \in 1..Len(hooks[h].log) :
              hooks[h].log[i] = hooks[h].log[j] => i = j
        /\ \A i \in 1..Len(hooks[h].log) : isContentFlagImport(hooks[h].log[i])

\* A run has invalidated one of two known content modules and awaits the
\* second while a request is in flight.
C2_Witness ==
    \E h \in HookIds :
        /\ hooks[h].pc = "awaiting"
        /\ Cardinality(hooks[h].known) = 2
        /\ Len(hooks[h].log) = 1
        /\ \E l \in LoadIds : loads[l].pc = "reading"

\* C3 (as claimed): the invalidation a schema-config event starts has run to
\* completion by the time the reload that event causes is settled: once the
\* observable has left loading and no generator holds an event to handle, no
\* run of the invalidation hook is still under way.
C3_InvalidationBeforeSettled ==
    (/\ obs.status # "loading"
     /\ \A g \in 1..Len(generators) :
           generators[g].pc = "idle" /\ generators[g].queue = <<>>)
        => \A h \in HookIds : hooks[h].pc # "awaiting"

\* C4 (as claimed): once the server is ready, no step of a run whose watcher
\* events all leave the schema-config file alone changes the observable.
C4_ObservableUnchanged == [][srv = "ready" => obs' = obs]_vars

\* C4 (amended): once the server is ready, a run whose watcher events all
\* leave the schema-config file alone changes the observable only where a
\* generator started by the directory-add event of the content root, absent
\* at startup, publishes the result of its initialisation.
C4_ObservableUnchangedButByInit ==
    [][(srv = "ready" /\ obs' # obs)
          => \E g \in 1..Len(generators) :
                /\ generators[g].from = "addDir"
                /\ generators[g].pc = "init"
                /\ generators'[g].pc = "inited"]_vars

C4_Witness ==
    /\ srv = "ready"
    /\ dirAtStart
    /\ obs.status = "loaded"
    /\ \E g \in 1..Len(generators) :
          /\ generators[g].pc = "idle"
          /\ generators[g].queue # <<>>
          /\ ~ReloadsConfig(Head(generators[g].queue))

\* C5 (as claimed): when the content root is absent at startup, at most one
\* generator is ever created and initialised by directory-add events.
C5_InitialisedOnce ==
    ~dirAtStart =>
        Cardinality({g \in 1..Len(generators) : generators[g].from = "addDir"}) <= 1

\* C6: no load is suspended while the observable holds a resolution (loaded
\* or error), and a load whose wait was ended by a resolution goes on to read
\* its file, also when the observable has gone back to loading meanwhile.
C6_SuspendedLoadResumes ==
    /\ [](obs.status # "loading" => \A l \in LoadIds : ~Suspended(l))
    /\ \A l \in LoadIds :
          (loads[l].pc = "notified") ~> (loads[l].pc \notin {"waiting", "notified"})

C6_Witness ==
    \E l \in LoadIds :
        /\ loads[l].pc = "notified"
        /\ loads[l].ctx.status = "error"
        /\ obs.status = "loading"

\* C7: a load that took a ctx of status error, at its first read or as the
\* resolution it waited for, never fails validation; the module it emits
\* carries the raw front-matter; and for a readable, well-formed file of a
\* collection it does emit a module.
C7_ErrorFallsBackToRaw ==
    \A l \in LoadIds :
        (Over(l) /\ loads[l].ctx.status = "error") =>
            LET file == FileAt(getFileInfo(loads[l].id)) IN
            /\ loads[l].err # "validation"
            /\ loads[l].res = "module" =>
                  /\ loads[l].code.data = [validated |-> FALSE, value |-> file.data]
                  /\ loads[l].code.rawData = file.data
            /\ (file.read = "ok" /\ file.matter = "ok"
                    /\ getEntryInfo(file.path) # EntryError) =>
                  loads[l].pc = "done" /\ loads[l].res = "module"

C7_Witness ==
    \E l \in LoadIds :
        /\ loads[l].pc = "done"
        /\ loads[l].id = Id(FileB.path, {CONTENT_FLAG})
        /\ loads[l].ctx.status = "error"
        /\ loads[l].res = "module"
        /\ loads[l].code.data.value = "title:42"

\* C8: the step in which a load fails (unreadable file, malformed
\* front-matter, rejected data) changes nothing but that load: the observable,
\* its subscribers, the module graph and every other load stay as they are;
\* and a load of the valid file a.md under a config with the blog schema
\* always ends with its validated module.
C8_FailureIsLocal ==
    /\ [][\A l \in LoadIds :
            (loads[l].pc # "failed" /\ loads'[l].pc = "failed") =>
                /\ loads'[l].err \in {"io", "parse", "validation"}
                /\ obs' = obs
                /\ subscribers' = subscribers
                /\ mods' = mods
                /\ \A k \in LoadIds \ {l} : loads'[k] = loads[k]]_vars
    /\ [](\A l \in LoadIds :
            (/\ Over(l)
             /\ loads[l].id = Id(FileA.path, {CONTENT_FLAG})
             /\ loads[l].ctx = Ctx("loaded", {"blog"})) =>
                /\ loads[l].pc = "done"
                /\ loads[l].res = "module"
                /\ loads[l].code.data = [validated |-> TRUE, value |-> "title:Hi"])

C8_Witness ==
    \E l, k \in LoadIds :
        /\ loads[l].pc = "failed"
        /\ loads[l].err = "validation"
        /\ loads[l].id = Id(FileB.path, {CONTENT_FLAG})
        /\ loads[k].pc = "done"
        /\ loads[k].id = Id(FileA.path, {CONTENT_FLAG})
        /\ loads[k].code.data.validated
        /\ obs = Ctx("loaded", {"blog"})

\* C9: a request reads the observable exactly when its url carries the
\* content flag and its pathname ends with a content extension; any other
\* request ends with load and transform having returned nothing, without
\* having read or subscribed to the observable.
C9_ContentIffFlagAndExt ==
    \A l \in LoadIds :
        loads[l].pc # "idle" =>
            LET id == loads[l].id
                content == /\ "astroContent" \in id.query
                           /\ id.pathname[Len(id.pathname)] \in contentFileExts
            IN  /\ loads[l].readObs <=> content
                /\ ~content =>
                      /\ loads[l].pc = "done"
                      /\ loads[l].res = "nothing"
                      /\ loads[l].code = NoCode
                      /\ loads[l].ctx = NoCtx
                      /\ ~loads[l].subscribed
                      /\ ~IsSubscriber(l)

C9_Witness ==
    /\ \E l \in LoadIds :
          /\ loads[l].id = Id(FileT.path, {CONTENT_FLAG})
          /\ loads[l].pc = "done"
          /\ loads[l].res = "nothing"
          /\ ~loads[l].readObs
    /\ obs.status = "loading"

\* C10: a content-flagged load of a readable path with no entry info (outside
\* the content root) ends done having returned nothing: no error, no
\* validation, no module emitted or cached; and the step that ends it leaves
\* the observable as it was.
C10_SilentAbort ==
    /\ [](\A l \in LoadIds :
            (/\ Over(l)
             /\ isContentFlagImport(loads[l].id)
             /\ getEntryInfo(getFileInfo(loads[l].id)) = EntryError) =>
                /\ loads[l].pc = "done"
                /\ loads[l].res = "nothing"
                /\ loads[l].err = "none"
                /\ loads[l].code = NoCode
                /\ ~mods[loads[l].id].cached)
    /\ [][\A l \in LoadIds :
            (/\ loads[l].pc = "reading"
             /\ loads'[l].pc \in {"done", "failed"}
             /\ getEntryInfo(getFileInfo(loads[l].id)) = EntryError) =>
                obs' = obs /\ subscribers' = subscribers]_vars

C10_Witness ==
    \E l \in LoadIds :
        /\ loads[l].id = Id(FileO.path, {CONTENT_FLAG})
        /\ loads[l].pc = "done"
        /\ loads[l].res = "nothing"
        /\ loads[l].ctx.status = "loaded"
        /\ loads[l].ctx.config = {"blog"}

\* C11: a transition of the observable from loading to loaded or error
\* notifies every suspended load with the ctx of that transition, queues
\* their continuations in subscription order and leaves no subscriber; a
\* notified load is resumed only at its turn in that order, once, and goes on
\* to read its file; a load is notified only out of its suspension; and
\* while one load stays suspended another load that is reading its file only
\* moves on to its end.
C11_AllResumeInOrder ==
    /\ [][(obs.status = "loading" /\ obs'.status \in {"loaded", "error"}) =>
            /\ \A l \in LoadIds :
                  Suspended(l) => loads'[l].pc = "notified" /\ loads'[l].ctx = obs'
            /\ microtasks' = microtasks \o subscribers
            /\ subscribers' = <<>>]_vars
    /\ [][\A l \in LoadIds :
            /\ (loads[l].pc = "notified" /\ loads'[l].pc # "notified") =>
                  /\ Head(microtasks) = l
                  /\ microtasks' = Tail(microtasks)
                  /\ loads'[l].pc = "reading"
            /\ (loads[l].pc # "notified" /\ loads'[l].pc = "notified") =>
                  Suspended(l)
            /\ (Suspended(l) /\ loads'[l] = loads[l]) =>
                  \A k \in LoadIds \ {l} :
                      loads[k].pc = "reading" => loads'[k].pc \in {"reading", "done", "failed"}]_vars

C11_Witness ==
    /\ microtasks = <<1, 2>>
    /\ subscribers = <<>>
    /\ \A l \in LoadIds : loads[l].pc = "notified" /\ loads[l].ctx = obs
    /\ obs.status = "error"

\* C12: a load that took a loaded ctx, of a readable, well-formed file with
\* entry info, ends according to whether the config holds a schema for the
\* entry's collection: with a schema it emits the validated data, or fails
\* with a validation error when the schema rejects the data; without one it
\* emits the raw front-matter.
C12_ValidatedIffSchema ==
    \A l \in LoadIds :
        LET file == FileAt(getFileInfo(loads[l].id))
            info == getEntryInfo(file.path)
        IN  (/\ Over(l)
             /\ loads[l].ctx.status = "loaded"
             /\ file.read = "ok" /\ file.matter = "ok"
             /\ info # EntryError) =>
                IF info.collection \in loads[l].ctx.config
                THEN IF file.data = "title:Hi"
                     THEN /\ loads[l].pc = "done"
                          /\ loads[l].res = "module"
                          /\ loads[l].code.data = [validated |-> TRUE, value |-> file.data]
                     ELSE /\ loads[l].pc = "failed"
                          /\ loads[l].err = "validation"
                          /\ loads[l].res = "pending"
                          /\ loads[l].code = NoCode
                ELSE /\ loads[l].pc = "done"
                     /\ loads[l].res = "module"
                     /\ loads[l].code.data = [validated |-> FALSE, value |-> file.data]

C12_Witness ==
    \E l, k \in LoadIds :
        /\ loads[k].id = Id(FileB.path, {CONTENT_FLAG})
        /\ loads[k].pc = "done"
        /\ loads[k].ctx = Ctx("loaded", {})
        /\ loads[k].code.data = [validated |-> FALSE, value |-> "title:42"]
        /\ loads[l].id = Id(FileB.path, {CONTENT_FLAG})
        /\ loads[l].pc = "failed"
        /\ loads[l].ctx = Ctx("loaded", {"blog"})
        /\ loads[l].err = "validation"

C14_EscapingIdempotent ==
    \A l \in LoadIds :
        (loads[l].pc = "done" /\ loads[l].res = "module") =>
            LET file == FileAt(getFileInfo(loads[l].id))
                info == getEntryInfo(file.path)
            IN  /\ loads[l].code = ModuleCode(file, info, loads[l].code.data)
                /\ loads[l].code.body = escapeViteEnvReferences(file.body)
                /\ escapeViteEnvReferences(loads[l].code.body) = loads[l].code.body
                /\ \A i \in 1..Len(loads[l].code.body) :
                      loads[l].code.body[i] \notin {"import.meta.env", "process.env"}

C14_Witness ==
    \E l \in LoadIds :
        /\ loads[l].pc = "done"
        /\ loads[l].id = Id(FileA.path, {CONTENT_FLAG})
        /\ loads[l].code.body = <<"hello", "import\\u002Emeta.env">>
        /\ mods[loads[l].id].cached

\* C15: a run of the invalidation hook starts only in the step that delivers
\* an add, change or unlink event of the schema-config file (the event the
\* attached generator is handed in the same step); the delivery of any event
\* leaves the module graph as it is; and a module loses its cached result
\* only to a step of a running hook, and only if its url is a content import.
C15_OnlyConfigFileInvalidates ==
    /\ [][\A h \in HookIds :
            (hooks[h].pc # "awaiting" /\ hooks'[h] # hooks[h]) =>
                LET q == generators'[1].queue IN
                /\ Len(q) = Len(generators[1].queue) + 1
                /\ q[Len(q)].name \in {"add", "change", "unlink"}
                /\ q[Len(q)].entry = configPath]_vars
    /\ [][(Len(generators) = 1 /\ Len(generators'[1].queue) > Len(generators[1].queue)) =>
            mods' = mods /\ keys' = keys]_vars
    /\ [][\A u \in Ids :
            (mods[u].cached /\ ~mods'[u].cached) =>
                /\ "astroContent" \in u.query
                /\ u.pathname[Len(u.pathname)] \in contentFileExts
                /\ \E h \in HookIds :
                      hooks[h].pc = "awaiting" /\ keys[hooks[h].pos] = u]_vars

C15_Witness ==
    /\ Len(generators) = 1
    /\ generators[1].queue = <<Event("addDir", configPath)>>
    /\ \A h \in HookIds : hooks[h] = IdleHook
    /\ mods[Id(FileA.path, {CONTENT_FLAG})].cached
    /\ mods[Id(FileA.path, {"raw"})].cached

\* C16: with the content root absent at startup, as long as the watcher has
\* not reported addDir of exactly the content root, whatever else it reports
\* (addDir of other paths included): no generator exists, the observable is
\* the initial loading ctx, the content-dir listener and the invalidation
\* hook stay registered once the server is ready, and every load of a
\* content import is suspended.
C16_NothingBeforeRootArrives ==
    /\ generators = <<>>
    /\ obs = [status |-> "loading", config |-> {}]
    /\ srv = "ready" => dirListener /\ hookOn
    /\ \A l \in LoadIds :
          (loads[l].pc # "idle" /\ isContentFlagImport(loads[l].id)) => Suspended(l)

C16_Witness ==
    /\ srv = "ready"
    /\ generators = <<>>
    /\ dirListener
    /\ \E h \in HookIds : hooks[h].pc = "done"
    /\ \E l \in LoadIds : Suspended(l)
    /\ obs.status = "loading"

\* C17 (as claimed): at most one generator has its forwarding listeners
\* attached to the watcher, so a watcher event reaches queueEvent once and one
\* generator alone writes the observable.
C17_OneSetOfListeners ==
    Cardinality({g \in 1..Len(generators) :
                    generators[g].pc \in {"idle", "reloading"}}) <= 1

\* C18: the subscribers of the observable are exactly the suspended loads,
\* each once; a load becomes a subscriber only in a step where the observable
\* is loading; a ctx of status loading set while a load is suspended leaves it
\* suspended and subscribed; and a set of the observable moves no load that
\* is not suspended.
C18_SubscribersAreSuspendedLoads ==
    /\ [](/\ \A l \in LoadIds :
                /\ IsSubscriber(l) <=> Suspended(l)
                /\ loads[l].subscribed <=> Suspended(l)
          /\ \A i, j \in 1..Len(subscribers) :
                subscribers[i] = subscribers[j] => i = j)
    /\ [][\A l \in LoadIds :
            /\ (~IsSubscriber(l) /\ IsSubscriber(l)') =>
                  obs.status = "loading" /\ obs' = obs
            /\ (Suspended(l) /\ obs'.status = "loading") =>
                  Suspended(l)' /\ IsSubscriber(l)'
            /\ (~Suspended(l) /\ obs' # obs) => loads'[l].pc = loads[l].pc]_vars

C18_Witness ==
    /\ Suspended(1)
    /\ subscribers = <<1>>
    /\ Len(generators) = 2
    /\ \A g \in 1..Len(generators) : generators[g].pc = "reloading"

\* C19 (as claimed): isHeadAndContent never throws; it returns true for a
\* value built by createHeadAndContent(head, content), whose head and content
\* are the arguments; and it returns false for null, for a primitive and for
\* an object that holds nothing under the marker.
C19_TotalPredicate ==
    /\ hc.pc # "threw"
    /\ hc.pc = "made" =>
          hc.obj.head = hc.head /\ hc.obj.content = hc.content
    /\ hc.pc = "checked" =>
          /\ hc.head # "undefined" => hc.out.value
          /\ hc.obj.kind \notin {"object", "function"} => ~hc.out.value
          /\ hc.obj.marker = "undefined" => ~hc.out.value

====
